---- MODULE Spec2Model ----
(***************************************************************************)
(* WPTools core (wptools/core.py): the per-action cache, the request       *)
(* orchestrator _get, the response validator _load_response and the cache  *)
(* accessors info / query / response.                                      *)
(*                                                                         *)
(* Text that the code inspects character by character (action names, query *)
(* strings) is a sequence of one-character strings.  A response body is a  *)
(* record: empty, unparsable, or JSON text carrying a document and an      *)
(* amount of insignificant whitespace that parsing drops.                  *)
(***************************************************************************)
EXTENDS Naturals, Sequences, FiniteSets, TLC

VARIABLES
    cache,      \* self.cache: action name -> ActionRecord
    flags,      \* self.flags: silent, skip
    data,       \* self.data: names of the actions whose payload was extracted
    last,       \* the latest call: operation, action, outcome, diagnostics
    calls,      \* per action, how often the transport was invoked
    sent,       \* per action, what the latest transport call was given and returned
    nfetch,     \* per action, how often _get was called
    pc,         \* where a call of _get that runs step by step stands
    cur,        \* the arguments and the built query of that call
    ret         \* what the latest accessor or prettyprint call returned or wrote

vars == <<cache, flags, data, last, calls, sent, nfetch, pc, cur, ret>>

----------------------------------------------------------------------------
(* Bounds of the model *)

\* the number of _get calls in one session
MaxFetches == 3
\* the number of pieces a built query string is made of
MaxChunks == 4
\* the length of the longest line handed to prettyprint
MaxLine == 76

----------------------------------------------------------------------------
(* Character sequences *)

\* the spelling of each action name the model uses
Spell(name) ==
    CASE name = "query"     -> <<"q", "u", "e", "r", "y">>
      [] name = "parse"     -> <<"p", "a", "r", "s", "e">>
      [] name = "wikidata"  -> <<"w", "i", "k", "i", "d", "a", "t", "a">>
      [] name = "imageinfo" -> <<"i", "m", "a", "g", "e", "i", "n", "f", "o">>
      [] name = "querymore" -> <<"q", "u", "e", "r", "y", "m", "o", "r", "e">>

\* "&format="
FormatKey == <<"&", "f", "o", "r", "m", "a", "t", "=">>
\* "json"
Json == <<"j", "s", "o", "n">>
\* '&format=json', the literal of core.py lines 97 and 163
FORMAT_JSON == FormatKey \o Json

\* m occurs in s at position i
StartsAt(s, i, m) ==
    /\ i + Len(m) - 1 <= Len(s)
    /\ SubSeq(s, i, i + Len(m) - 1) = m

\* Python's `m in s` for strings
Contains(m, s) ==
    \/ Len(m) = 0
    \/ \E i \in 1..Len(s) : StartsAt(s, i, m)

\* Python's s.replace(old, new) from position i on: one pass, left to right,
\* over the non-overlapping occurrences of a non-empty old
RECURSIVE ReplaceFrom(_, _, _, _)
ReplaceFrom(s, i, old, new) ==
    IF i > Len(s) THEN <<>>
    ELSE IF StartsAt(s, i, old)
         THEN new \o ReplaceFrom(s, i + Len(old), old, new)
         ELSE <<s[i]>> \o ReplaceFrom(s, i + 1, old, new)

Replace(s, old, new) == ReplaceFrom(s, 1, old, new)

\* the query with the transport-format marker taken out
StripFormat(q) == Replace(q, FORMAT_JSON, <<>>)

----------------------------------------------------------------------------
(* JSON values, as far as _load_response looks into them *)

\* Python's None: what dict.get returns for a key that is not there
None == [t |-> "none"]
\* a value that is there and false in a condition: "", {}, [], false, 0, null
Empty == [t |-> "empty"]
\* a value that is there and true in a condition, whose inside is not read
Opaque == [t |-> "opaque"]
\* a JSON object with members m (key -> value); {} when m has no key
Object(m) == [t |-> "object", m |-> m]
\* a non-empty JSON array whose first element is first
Array(first) == [t |-> "array", first |-> first]

\* Python's truth value of v
Truthy(v) ==
    CASE v.t = "opaque" -> TRUE
      [] v.t = "array"  -> TRUE
      [] v.t = "object" -> DOMAIN v.m # {}
      [] OTHER          -> FALSE

\* d.get(k) on a dict
Get(d, k) == IF k \in DOMAIN d.m THEN d.m[k] ELSE None

\* the members m restricted to the keys that are there
Members(m) == [k \in {j \in DOMAIN m : m[j] # None} |-> m[k]]

\* the values a key of the payload may have; None: the key is not there
Flag == {None, Empty, Opaque}

\* an element of query.pages, with or without the "missing" marker
PageValues == {Object(Members([missing |-> mv, title |-> Opaque])) : mv \in Flag}

\* the "query" member: not there, empty, or an object with or without pages
QueryValues ==
    {None, Empty}
    \cup {Object(Members([pages |-> pg, normalized |-> Opaque])) :
             pg \in {None, Empty} \cup {Array(pv) : pv \in PageValues}}

\* the "entities" member: not there, or a mapping from entity ids
EntityValues ==
    {None} \cup {Object([k \in ks |-> Opaque]) : ks \in SUBSET {"-1", "Q1"}}

\* a payload: a JSON object with the members the validator reads, and "items"
Doc(w, e, q, p, n, x) ==
    Object(Members([warnings |-> w, error |-> e, query |-> q, parse |-> p,
                    entities |-> n, items |-> x]))

Docs ==
    {Doc(w, e, q, p, n, x) : w \in {None, Opaque}, e \in Flag, q \in QueryValues,
                             p \in Flag, n \in EntityValues, x \in {None, Opaque}}

(* Response bodies *)

\* no body: the transport returned "" or nothing
NoBody == [kind |-> "empty"]
\* a body that is not JSON
Garbage == [kind |-> "garbage"]
\* the JSON text of doc, written with or without insignificant whitespace
JsonText(doc, spaced) == [kind |-> "json", doc |-> doc, spaced |-> spaced]

Bodies == {NoBody, Garbage} \cup {JsonText(d, sp) : d \in Docs, sp \in BOOLEAN}

\* utils.json_loads: the document of a JSON text, ValueError for anything else
json_loads(text) ==
    IF text.kind = "json"
    THEN [ok |-> TRUE, value |-> text.doc]
    ELSE [ok |-> FALSE, value |-> None]

\* Python's `k in v`: membership in a mapping, TypeError when v is None
KeyIn(k, v) ==
    IF v.t = "object"
    THEN [ok |-> TRUE, value |-> k \in DOMAIN v.m]
    ELSE [ok |-> FALSE, value |-> FALSE]

----------------------------------------------------------------------------
(* The cache *)

\* transport metadata of a request: req.info
Infos == {[content |-> "TEST", status |-> 200], [content |-> "", status |-> 404]}
NoInfo == [content |-> "", status |-> 0]
\* what a field of an ActionRecord holds before it is assigned
NoQuery == <<>>
Unset == [kind |-> "unset"]

\* self.cache[action] = {}: the placeholder, none of the three keys assigned
Placeholder ==
    [keys |-> {}, query |-> NoQuery, response |-> Unset, info |-> NoInfo]


\* a query string that is not written to the record
WithQuery_dropped(rec, qstr) == rec

\* self.cache[action]['query'] = qstr
WithQuery(rec, qstr) ==
    [rec EXCEPT !.keys = @ \cup {"query"}, !.query = qstr]

\* a store that forgets the info
WithResponse_noinfo(rec, body, inf) ==
    [rec EXCEPT !.keys = @ \cup {"response"}, !.response = body]

\* self.cache[action]['response'] = response; self.cache[action]['info'] = req.info
WithResponse(rec, body, inf) ==
    [rec EXCEPT !.keys = @ \cup {"response", "info"}, !.response = body, !.info = inf]

\* `not response`: the transport returned no body
Falsy(body) == body.kind = "empty"

----------------------------------------------------------------------------
(* The response validator *)

\* what _load_response does: return `value`, or raise `exc`; `kind` names the
\* raise statement by the failure it stands for, `ctx` is the exception's
\* argument and `log` what was written to stderr on the way
Returned(value, log) ==
    [exc |-> "none", kind |-> "ok", ctx |-> "none", value |-> value, log |-> log]
Raised(exc, kind, ctx, log) ==
    [exc |-> exc, kind |-> kind, ctx |-> ctx, value |-> None, log |-> log]

\* lines 115-118: the first page of data['query']['pages'] is marked missing
QueryMissing(action, doc) ==
    /\ Contains(Spell("query"), Spell(action))
    /\ Truthy(Get(doc, "query"))
    /\ Truthy(Get(Get(doc, "query"), "pages"))
    /\ Truthy(Get(Get(Get(doc, "query"), "pages").first, "missing"))

\* a parse check that forgets which action it is for
ParseMissing_any(action, doc) == ~Truthy(Get(doc, "parse"))

\* line 120
ParseMissing(action, doc) ==
    action = "parse" /\ ~Truthy(Get(doc, "parse"))

\* an entity check that forgets which action it is for
EntityMissing_any(action, doc) == KeyIn("-1", Get(doc, "entities"))

\* line 123: '-1' in data.get('entities'), evaluated for "wikidata" only
EntityMissing(action, doc) ==
    IF action = "wikidata"
    THEN KeyIn("-1", Get(doc, "entities"))
    ELSE [ok |-> TRUE, value |-> FALSE]

\* lines 108-109: the warning written before the checks
Warned(doc) ==
    IF Truthy(Get(doc, "warnings")) THEN <<"API warning">> ELSE <<>>

\* checks that go looking for a missing page before they look for an error
Checks_reordered(action, doc) ==
    IF QueryMissing(action, doc)
    THEN Raised("LookupError", "NotFound", "query", Warned(doc))
    ELSE IF ParseMissing(action, doc)
    THEN Raised("LookupError", "NotFound", "query", Warned(doc))
    ELSE IF Truthy(Get(doc, "error"))
    THEN Raised("LookupError", "APIError", "query",
                Warned(doc) \o <<"API error">>)
    ELSE IF ~EntityMissing(action, doc).ok
    THEN Raised("TypeError", "TypeError", "none", Warned(doc))
    ELSE IF EntityMissing(action, doc).value
    THEN Raised("LookupError", "NotFound", "query", Warned(doc))
    ELSE Returned(doc, Warned(doc))

\* lines 108-126: the checks of a parsed payload, in the order of the code
Checks(action, doc) ==
    IF Truthy(Get(doc, "error"))
    THEN Raised("LookupError", "APIError", "query",
                Warned(doc) \o <<"API error">>)
    ELSE IF QueryMissing(action, doc)
    THEN Raised("LookupError", "NotFound", "query", Warned(doc))
    ELSE IF ParseMissing(action, doc)
    THEN Raised("LookupError", "NotFound", "query", Warned(doc))
    ELSE IF ~EntityMissing(action, doc).ok
    THEN Raised("TypeError", "TypeError", "none", Warned(doc))
    ELSE IF EntityMissing(action, doc).value
    THEN Raised("LookupError", "NotFound", "query", Warned(doc))
    ELSE Returned(doc, Warned(doc))

\* _load_response(action) on the record rec == self.cache[action]
load_response(rec, action) ==
    LET parsed == json_loads(rec.response)
    IN  IF ~({"query", "response"} \subseteq rec.keys)
        THEN Raised("KeyError", "KeyError", "none", <<>>)
        ELSE IF Falsy(rec.response)
        THEN Raised("ValueError", "EmptyResponse", "params", <<>>)
        ELSE IF ~parsed.ok
        THEN Raised("ValueError", "MalformedPayload", "query", <<>>)
        ELSE Checks(action, parsed.value)

----------------------------------------------------------------------------
(* The session *)

\* every action name of the model
Actions == {"query", "parse", "wikidata", "imageinfo", "querymore"}
\* the actions a session of several calls fetches
SessionActions == {"query", "parse", "imageinfo"}

RECURSIVE Sum(_, _)
Sum(f, S) ==
    IF S = {} THEN 0
    ELSE LET x == CHOOSE y \in S : TRUE IN f[x] + Sum(f, S \ {x})

\* the number of _get calls made so far
Total == Sum(nfetch, Actions)

\* what the transport was last given and returned for an action: nothing yet
NotSent == [query |-> NoQuery, response |-> Unset, info |-> NoInfo]

\* before the first call; of a call, `show` says that self.show() was called
\* and `printed` that it wrote the report
NoCall ==
    [op |-> "none", action |-> "none", outcome |-> "none", exc |-> "none",
     log |-> <<>>, show |-> FALSE, printed |-> FALSE]

\* no call of _get is running step by step
NoCur == [action |-> "none", show |-> FALSE, qstr |-> NoQuery]

\* no accessor was called yet
NoRet == [op |-> "none", action |-> "none", result |-> None]

\* __init__ (lines 34-56): empty cache and data; the skip flag is set from the
\* keyword argument only when that is non-empty, so "no skip" is the empty set
StartWith(silent, skip) ==
    /\ cache = <<>>
    /\ data = {}
    /\ flags = [silent |-> silent, skip |-> skip]
    /\ last = NoCall
    /\ calls = [a \in Actions |-> 0]
    /\ sent = [a \in Actions |-> NotSent]
    /\ nfetch = [a \in Actions |-> 0]
    /\ pc = "idle"
    /\ cur = NoCur
    /\ ret = NoRet

\* a cache check that is left out: every call goes on to fetch
CacheHit_never(action) == FALSE

\* a cache check without the exemption of 'imageinfo'
CacheHit_any(action) == action \in DOMAIN cache

\* a cache check that counts only what was extracted: a failed fetch is retried
CacheHit_valid(action) ==
    action \in DOMAIN cache /\ action # "imageinfo" /\ action \in data

\* lines 64-67: the action is cached and is not 'imageinfo'
CacheHit(action) ==
    action \in DOMAIN cache /\ action # "imageinfo"

\* a skip check that the cache-exempt action escapes
Skipped_exempt(action) ==
    flags.skip # {} /\ action \in flags.skip /\ action # "imageinfo"

\* line 71: the action is to be skipped
Skipped(action) ==
    flags.skip # {} /\ action \in flags.skip

\* lines 68-69: the cache with the placeholder added when the action is new
Entered(action) ==
    IF action \in DOMAIN cache THEN cache ELSE (action :> Placeholder) @@ cache

\* a store that keeps the response and info a record already has
Stored_first(rec, qstr, body, inf) ==
    IF "response" \in rec.keys
    THEN WithQuery(rec, qstr)
    ELSE WithResponse(WithQuery(rec, qstr), body, inf)

\* lines 81-86: the record after the query, the response and the info are stored
Stored(rec, qstr, body, inf) ==
    WithResponse(WithQuery(rec, qstr), body, inf)

\* _set_data(action) of a concrete session: validate, then extract into data
set_data(rec, action) ==
    LET res == load_response(rec, action)
    IN  [res |-> res, data |-> IF res.exc = "none" THEN data \cup {action} ELSE data]

\* show() (lines 175-226) writes the report unless silent or there is no data
show(d) == ~flags.silent /\ d # {}

\* a formatter called whenever it was asked for
Shown_anyway(showAfter, res) == showAfter

\* lines 88-91: self.show() is reached when show is true and _set_data did
\* not raise
Shown(showAfter, res) == showAfter /\ res.exc = "none"

\* the diagnostic of a short-circuit, written unless silent
Note(text) == IF flags.silent THEN <<>> ELSE <<text>>

\* _get(action, show, proxy, timeout); qstr is what _query returns, body and
\* inf what the transport returns
get(action, showAfter, qstr, body, inf) ==
    /\ nfetch' = [nfetch EXCEPT ![action] = @ + 1]
    /\ UNCHANGED <<flags, pc, cur, ret>>
    /\ IF CacheHit(action)
       THEN /\ last' = [op |-> "get", action |-> action, outcome |-> "cached",
                        exc |-> "none", log |-> Note("results in cache"),
                        show |-> FALSE, printed |-> FALSE]
            /\ UNCHANGED <<cache, data, calls, sent>>
       ELSE IF Skipped(action)
       THEN /\ cache' = Entered(action)
            /\ last' = [op |-> "get", action |-> action, outcome |-> "skipped",
                        exc |-> "none", log |-> Note("skipping"), show |-> FALSE,
                        printed |-> FALSE]
            /\ UNCHANGED <<data, calls, sent>>
       ELSE LET rec == Stored(Entered(action)[action], qstr, body, inf)
                sd  == set_data(rec, action)
            IN  /\ cache' = [Entered(action) EXCEPT ![action] = rec]
                /\ calls' = [calls EXCEPT ![action] = @ + 1]
                /\ sent' = [sent EXCEPT ![action] =
                               [query |-> qstr, response |-> body, info |-> inf]]
                /\ data' = sd.data
                /\ last' = [op |-> "get", action |-> action,
                            outcome |-> sd.res.kind, exc |-> sd.res.exc,
                            log |-> sd.res.log,
                            show |-> Shown(showAfter, sd.res),
                            printed |-> Shown(showAfter, sd.res) /\ show(sd.data)]

\* the query strings the query builder returns in a session of several calls
SessionQueries == {<<"a">> \o FORMAT_JSON, <<"b">> \o FORMAT_JSON}

\* the payload of tests/rest_page.py: a listing, no "error", nothing missing
RestPage == Doc(None, None, None, None, None, Opaque)

\* what the transport returns in a session of several calls: nothing, the
\* listing, or a payload that reports an error
SessionReplies ==
    {[body |-> NoBody, info |-> [content |-> "", status |-> 404]],
     [body |-> JsonText(RestPage, FALSE), info |-> [content |-> "TEST", status |-> 200]],
     [body |-> JsonText(Doc(None, Opaque, None, None, None, None), TRUE),
      info |-> [content |-> "TEST", status |-> 200]]}

Init == \E silent \in BOOLEAN, skip \in SUBSET SessionActions : StartWith(silent, skip)

Fetch ==
    /\ Total < MaxFetches
    /\ \E action \in SessionActions, showAfter \in BOOLEAN,
          qstr \in SessionQueries, reply \in SessionReplies :
          get(action, showAfter, qstr, reply.body, reply.info)

Next == Fetch

Spec == Init /\ [][Next]_vars

----------------------------------------------------------------------------
(* The accessors: what info(action), query(action) and response(action)     *)
(* return; action "None" is the default argument                            *)

\* the names of the records that hold something
Names_fetched ==
    [exc |-> "none",
     kind |-> IF {a \in DOMAIN cache : cache[a].keys # {}} = {} THEN "None" ELSE "names",
     value |-> None, names |-> {a \in DOMAIN cache : cache[a].keys # {}}]

Value(v) == [exc |-> "none", kind |-> "value", value |-> v, names |-> {}]
\* self.cache.keys() or None
Names ==
    [exc |-> "none", kind |-> IF DOMAIN cache = {} THEN "None" ELSE "names",
     value |-> None, names |-> DOMAIN cache]
\* reading a key of the record that was never assigned, or parsing no JSON
Failed(exc) == [exc |-> exc, kind |-> "raise", value |-> None, names |-> {}]

info(action) ==
    IF action \in DOMAIN cache
    THEN IF "info" \in cache[action].keys
         THEN Value(cache[action].info) ELSE Failed("KeyError")
    ELSE Names

query(action) ==
    IF action \in DOMAIN cache
    THEN IF "query" \in cache[action].keys
         THEN Value(StripFormat(cache[action].query)) ELSE Failed("KeyError")
    ELSE Names

response(action) ==
    IF action \in DOMAIN cache
    THEN IF "response" \in cache[action].keys
         THEN IF json_loads(cache[action].response).ok
              THEN Value(json_loads(cache[action].response).value)
              ELSE Failed("ValueError")
         ELSE Failed("KeyError")
    ELSE Names

----------------------------------------------------------------------------
(* One call with any response body: the validator on every input *)

\* the query string and the info of the one request
OneQuery == <<"a">> \o FORMAT_JSON
OneInfo == [content |-> "TEST", status |-> 200]

InitValidate == \E silent \in BOOLEAN : StartWith(silent, {})

Validate ==
    /\ Total = 0
    /\ \E action \in Actions, body \in Bodies :
          get(action, FALSE, OneQuery, body, OneInfo)

NextValidate == Validate

SpecValidate == InitValidate /\ [][NextValidate]_vars

----------------------------------------------------------------------------
(* One call with any built query string: the display form of the query *)

\* the pieces a query string is concatenated from
Chunks == {FormatKey, Json, <<"a">>}

RECURSIVE Concat(_)
Concat(pieces) ==
    IF pieces = <<>> THEN <<>> ELSE Head(pieces) \o Concat(Tail(pieces))

\* every concatenation of at most MaxChunks pieces
BuiltQueries ==
    {Concat(ps) : ps \in UNION {[1..n -> Chunks] : n \in 0..MaxChunks}}

InitQuery == StartWith(FALSE, {})

Build ==
    /\ Total = 0
    /\ \E action \in {"query", "imageinfo"}, qstr \in BuiltQueries :
          get(action, FALSE, qstr, JsonText(RestPage, FALSE), OneInfo)

NextQuery == Build

SpecQuery == InitQuery /\ [][NextQuery]_vars

----------------------------------------------------------------------------
(* A short session whose caller also reads the cache and edits the skip flag *)

FewActions == {"query", "imageinfo"}

InitFew == \E skip \in SUBSET FewActions : StartWith(FALSE, skip)

FetchFew ==
    /\ Total < MaxFetches
    /\ \E action \in FewActions, reply \in SessionReplies :
          get(action, FALSE, OneQuery, reply.body, reply.info)

\* the accessor named op called with action; "None" is no argument
Accessor(op, action) ==
    CASE op = "info"     -> info(action)
      [] op = "query"    -> query(action)
      [] op = "response" -> response(action)

\* a call of info, query or response: it returns (or raises) and writes nothing
Inspect ==
    \E op \in {"info", "query", "response"}, action \in FewActions \cup {"None"} :
        /\ ret' = [op |-> op, action |-> action, result |-> Accessor(op, action)]
        /\ UNCHANGED <<cache, flags, data, last, calls, sent, nfetch, pc, cur>>

NextInspect == FetchFew \/ Inspect

SpecInspect == InitFew /\ [][NextInspect]_vars

\* the caller takes an action out of the skip flag: flags['skip'].remove(action)
Unskip ==
    \E action \in flags.skip :
        /\ flags' = [flags EXCEPT !.skip = @ \ {action}]
        /\ UNCHANGED <<cache, data, last, calls, sent, nfetch, pc, cur, ret>>

NextRetry == FetchFew \/ Unskip

SpecRetry == InitFew /\ [][NextRetry]_vars

----------------------------------------------------------------------------
(* _get statement by statement *)

InitSteps == \E silent \in BOOLEAN, skip \in SUBSET FewActions : StartWith(silent, skip)

\* lines 58-69: the call, the cache check and the placeholder
Enter ==
    /\ pc = "idle"
    /\ Total < MaxFetches
    /\ \E action \in FewActions, showAfter \in BOOLEAN :
          /\ nfetch' = [nfetch EXCEPT ![action] = @ + 1]
          /\ IF CacheHit(action)
             THEN /\ last' = [op |-> "get", action |-> action, outcome |-> "cached",
                              exc |-> "none", log |-> Note("results in cache"),
                              show |-> FALSE, printed |-> FALSE]
                  /\ UNCHANGED <<cache, pc, cur>>
             ELSE /\ cache' = Entered(action)
                  /\ cur' = [action |-> action, show |-> showAfter, qstr |-> NoQuery]
                  /\ pc' = "skip"
                  /\ UNCHANGED last
    /\ UNCHANGED <<flags, data, calls, sent, ret>>

\* lines 71-74: the skip check
SkipCheck ==
    /\ pc = "skip"
    /\ IF Skipped(cur.action)
       THEN /\ last' = [op |-> "get", action |-> cur.action, outcome |-> "skipped",
                        exc |-> "none", log |-> Note("skipping"), show |-> FALSE,
                        printed |-> FALSE]
            /\ pc' = "idle"
            /\ cur' = NoCur
       ELSE /\ pc' = "build"
            /\ UNCHANGED <<last, cur>>
    /\ UNCHANGED <<cache, flags, data, calls, sent, nfetch, ret>>

\* lines 80-81: _query returns the query string, which is written to the record
BuildQuery ==
    /\ pc = "build"
    /\ \E qstr \in SessionQueries :
          /\ cache' = [cache EXCEPT ![cur.action] = WithQuery(@, qstr)]
          /\ cur' = [cur EXCEPT !.qstr = qstr]
    /\ pc' = "request"
    /\ UNCHANGED <<flags, data, last, calls, sent, nfetch, ret>>

\* lines 83-84: the transport is made and its get is called with the query
Invoke ==
    /\ pc = "request"
    /\ calls' = [calls EXCEPT ![cur.action] = @ + 1]
    /\ sent' = [sent EXCEPT ![cur.action] =
                   [query |-> cur.qstr, response |-> Unset, info |-> NoInfo]]
    /\ pc' = "transport"
    /\ UNCHANGED <<cache, flags, data, last, nfetch, cur, ret>>

\* lines 84-86: the transport returns; the response and the info are stored
Return ==
    /\ pc = "transport"
    /\ \E reply \in SessionReplies :
          /\ cache' = [cache EXCEPT ![cur.action] =
                          WithResponse(@, reply.body, reply.info)]
          /\ sent' = [sent EXCEPT ![cur.action] =
                         [@ EXCEPT !.response = reply.body, !.info = reply.info]]
    /\ pc' = "extract"
    /\ UNCHANGED <<flags, data, last, calls, nfetch, cur, ret>>

\* line 84: the transport raises; _get has no handler, so its caller gets the
\* exception
Raise ==
    /\ pc = "transport"
    /\ last' = [op |-> "get", action |-> cur.action, outcome |-> "TransportError",
                exc |-> "TransportError", log |-> <<>>, show |-> FALSE,
                printed |-> FALSE]
    /\ pc' = "idle"
    /\ cur' = NoCur
    /\ UNCHANGED <<cache, flags, data, calls, sent, nfetch, ret>>

\* lines 88-91: _set_data, then show() when asked for
Extract ==
    /\ pc = "extract"
    /\ LET sd == set_data(cache[cur.action], cur.action)
       IN  /\ data' = sd.data
           /\ last' = [op |-> "get", action |-> cur.action,
                       outcome |-> sd.res.kind, exc |-> sd.res.exc,
                       log |-> sd.res.log,
                       show |-> Shown(cur.show, sd.res),
                       printed |-> Shown(cur.show, sd.res) /\ show(sd.data)]
    /\ pc' = "idle"
    /\ cur' = NoCur
    /\ UNCHANGED <<cache, flags, calls, sent, nfetch, ret>>

NextSteps == Enter \/ SkipCheck \/ BuildQuery \/ Invoke \/ Return \/ Raise \/ Extract

SpecSteps == InitSteps /\ [][NextSteps]_vars

\* a whole call of _get made from inside a step of the running one: from
\* _query, from the transport or from _set_data, or by another thread
Nested ==
    /\ pc \in {"skip", "build", "request", "transport", "extract"}
    /\ Total < MaxFetches
    /\ \E action \in FewActions, reply \in SessionReplies :
          get(action, FALSE, OneQuery, reply.body, reply.info)

NextReentrant == NextSteps \/ Nested

SpecReentrant == InitFew /\ [][NextReentrant]_vars

----------------------------------------------------------------------------
(* prettyprint: the lines written to stderr *)

\* WPToolsQuery.MAXWIDTH and WPToolsQuery.RPAD
MAXWIDTH == 72
RPAD == 4

\* '...'
Ellipsis == <<".", ".", ".">>

\* line[:extent], Python's slice: the whole line when it is shorter
Slice(line, extent) ==
    IF extent <= 0 THEN <<>>
    ELSE IF extent >= Len(line) THEN line
    ELSE SubSeq(line, 1, extent)

\* lines 238-240: what is written for one line
Written(line) ==
    LET extent == MAXWIDTH - (RPAD + 2)
    IN  IF Len(line) >= MAXWIDTH THEN Slice(line, extent) \o Ellipsis ELSE line

\* prettyprint(datastr): every line of datastr, in order
prettyprint(datastr) == [i \in 1..Len(datastr) |-> Written(datastr[i])]

\* the lines of a length up to MaxLine: one letter repeated, or the digits in turn
Digits == <<"0", "1", "2", "3", "4", "5", "6", "7", "8", "9">>
Lines ==
    {[i \in 1..n |-> "x"] : n \in 0..MaxLine}
    \cup {[i \in 1..n |-> Digits[(i % 10) + 1]] : n \in 0..MaxLine}

\* the report of show(): here the opening brace (line 192) and one more line
Reports == {<<l>> : l \in Lines} \cup {<<(<<"{">>), l>> : l \in Lines}

InitPretty == StartWith(FALSE, {})

Pretty ==
    /\ ret.op = "none"
    /\ \E datastr \in Reports :
          ret' = [op |-> "prettyprint", action |-> "none",
                  result |-> [given |-> datastr, written |-> prettyprint(datastr)]]
    /\ UNCHANGED <<cache, flags, data, last, calls, sent, nfetch, pc, cur>>

NextPretty == Pretty

SpecPretty == InitPretty /\ [][NextPretty]_vars

----------------------------------------------------------------------------
(* Claims about the orchestrator *)

\* the step is a call of _get for action a
Called(a) == nfetch'[a] = nfetch[a] + 1

\* the record of a holds what the transport was last given and returned
HoldsSent(c, s, a) ==
    /\ a \in DOMAIN c
    /\ c[a].keys = {"query", "response", "info"}
    /\ c[a].query = s[a].query
    /\ c[a].response = s[a].response
    /\ c[a].info = s[a].info

\* C1: for every action other than "imageinfo", a call of _get that is not
\* the first one for that action, whatever the earlier calls did, changes
\* neither the cache nor the transport's call count, and over the session the
\* transport is invoked at most once for the action.
C1_SecondFetchIsNoOp ==
    /\ [](\A a \in Actions \ {"imageinfo"} : calls[a] <= 1)
    /\ [][\A a \in Actions \ {"imageinfo"} :
             (Called(a) /\ nfetch[a] >= 1)
                 => (cache' = cache /\ calls' = calls /\ data' = data)]_vars

\* C1 witness: a second call for an action other than "imageinfo" came back
\* as a cache hit after a first call that reached the transport once
C1_Witness ==
    \E a \in Actions \ {"imageinfo"} :
        /\ nfetch[a] >= 2
        /\ calls[a] = 1
        /\ last.action = a /\ last.outcome = "cached"

\* C2 as stated: every call of _get for "imageinfo" made when "imageinfo" is
\* in the cache invokes the transport again and leaves the record holding the
\* new query, response and info, whatever the flags (skip included).
C2_Original ==
    [][(Called("imageinfo") /\ "imageinfo" \in DOMAIN cache)
          => /\ calls'["imageinfo"] = calls["imageinfo"] + 1
             /\ HoldsSent(cache', sent', "imageinfo")]_vars

\* C2 amended: every call of _get for "imageinfo" made when "imageinfo" is in
\* the cache and not in the skip set invokes the transport again and leaves
\* the record holding the new query, response and info.
C2_RefetchUnlessSkipped ==
    [][(Called("imageinfo") /\ "imageinfo" \in DOMAIN cache
            /\ "imageinfo" \notin flags.skip)
          => /\ calls'["imageinfo"] = calls["imageinfo"] + 1
             /\ HoldsSent(cache', sent', "imageinfo")
             /\ last'.outcome \notin {"cached", "skipped"}]_vars

\* C2 witness: "imageinfo" was fetched twice and the transport ran both times
C2_Witness ==
    /\ nfetch["imageinfo"] >= 2
    /\ calls["imageinfo"] = nfetch["imageinfo"]
    /\ last.action = "imageinfo"
    /\ HoldsSent(cache, sent, "imageinfo")

\* C3: for every action in the skip set, "imageinfo" included, the transport
\* is never invoked and the cache never holds a non-empty response for it.
C3_SkipNeverFetches ==
    \A a \in flags.skip :
        /\ calls[a] = 0
        /\ a \in DOMAIN cache
              => ("response" \notin cache[a].keys \/ Falsy(cache[a].response))

\* C3 witness: a skipped action was called twice, "imageinfo" among them
C3_Witness ==
    /\ "imageinfo" \in flags.skip
    /\ nfetch["imageinfo"] >= 2
    /\ last.action = "imageinfo" /\ last.outcome = "skipped"
    /\ "imageinfo" \in DOMAIN cache

----------------------------------------------------------------------------
(* Claims about the validator *)

\* the latest call ran the validator
Validated == last.op = "get" /\ last.outcome \notin {"cached", "skipped"}
\* the record and the body the validator was run on
LastRec == cache[last.action]
LastBody == LastRec.response
IsJson == LastBody.kind = "json"
LastDoc == LastBody.doc

\* the key k is there in the object d, whatever its value
HasKey(d, k) == k \in DOMAIN d.m
\* the object d with the member k set to v, and with the member k taken out
SetMember(d, k, v) == Object((k :> v) @@ d.m)
DropMember(d, k) == Object([j \in DOMAIN d.m \ {k} |-> d.m[j]])
\* the kind of outcome of the validator on the latest record with payload d
KindOn(d) ==
    load_response([LastRec EXCEPT !.response = JsonText(d, FALSE)], last.action).kind

\* the payload has a query.pages sequence whose first element has the key
\* "missing", with any value
FirstPageMarked(d) ==
    /\ HasKey(d, "query") /\ Get(d, "query").t = "object"
    /\ HasKey(Get(d, "query"), "pages")
    /\ Get(Get(d, "query"), "pages").t = "array"
    /\ HasKey(Get(Get(d, "query"), "pages").first, "missing")

\* C4 as stated: for every action name that contains "query", a parsed
\* payload without "error" whose first page carries the "missing" marker,
\* the marker with an empty value included, fails NotFound.
C4_Original ==
    (Validated /\ IsJson /\ Contains(Spell("query"), Spell(last.action))
        /\ ~HasKey(LastDoc, "error") /\ FirstPageMarked(LastDoc))
    => last.outcome = "NotFound"

\* C5 as stated: the validator returns the parsed payload or fails with one
\* of EmptyResponse, MalformedPayload, APIError, NotFound, and nothing else.
C5_Original ==
    Validated =>
        last.outcome \in {"ok", "EmptyResponse", "MalformedPayload",
                          "APIError", "NotFound"}

\* C6 as stated: empty fails EmptyResponse for every action, and a payload
\* that carries an "error" field, whatever its value, fails APIError even
\* when a NotFound detector matches too.
C6_Original ==
    Validated =>
        /\ Falsy(LastBody) => last.outcome = "EmptyResponse"
        /\ (IsJson /\ HasKey(LastDoc, "error")) => last.outcome = "APIError"

\* C6 amended: the checks are applied in the order EmptyResponse,
\* MalformedPayload, APIError, NotFound and the first that matches decides:
\* an empty response fails EmptyResponse for every action, an unparsable one
\* MalformedPayload, and a payload whose "error" field has a non-empty value
\* fails APIError, logged, even when a NotFound detector matches too; NotFound
\* is raised only for a parsed payload without such an error.
C6_FirstMatchWins ==
    Validated =>
        /\ Falsy(LastBody) <=> last.outcome = "EmptyResponse"
        /\ (~Falsy(LastBody) /\ ~IsJson) <=> last.outcome = "MalformedPayload"
        /\ (IsJson /\ Truthy(Get(LastDoc, "error"))) <=> last.outcome = "APIError"
        /\ last.outcome = "APIError"
              => /\ last.exc = "LookupError"
                 /\ last.log # <<>> /\ last.log[Len(last.log)] = "API error"
        /\ last.outcome = "NotFound"
              => (IsJson /\ ~Truthy(Get(LastDoc, "error")))

\* C6 witness: a payload with an error that a NotFound detector matches too
\* was validated and failed APIError
C6_Witness ==
    /\ Validated /\ IsJson
    /\ Truthy(Get(LastDoc, "error"))
    /\ \/ QueryMissing(last.action, LastDoc)
       \/ ParseMissing(last.action, LastDoc)
       \/ (HasKey(LastDoc, "entities") /\ EntityMissing(last.action, LastDoc).value)
    /\ last.outcome = "APIError"

\* C7 as stated: for "parse", a parsed payload without "error" fails NotFound
\* exactly when it has no "parse" field; for any other action the absence of
\* a "parse" field never causes NotFound.
C7_Original ==
    (Validated /\ IsJson /\ ~HasKey(LastDoc, "error"))
    => /\ last.action = "parse"
            => (last.outcome = "NotFound" <=> ~HasKey(LastDoc, "parse"))
       /\ last.action # "parse"
            => KindOn(DropMember(LastDoc, "parse")) = KindOn(SetMember(LastDoc, "parse", Opaque))

\* C7 amended: for "parse", a parsed payload without a non-empty "error"
\* fails NotFound exactly when it has no "parse" field or an empty one; for
\* any other action neither the absence nor the value of a "parse" field
\* changes the outcome.
C7_ParseMissing ==
    (Validated /\ IsJson /\ ~Truthy(Get(LastDoc, "error")))
    => /\ last.action = "parse"
            => (last.outcome = "NotFound" <=> ~Truthy(Get(LastDoc, "parse")))
       /\ last.action # "parse"
            => /\ KindOn(DropMember(LastDoc, "parse")) = last.outcome
               /\ KindOn(SetMember(LastDoc, "parse", Opaque)) = last.outcome

\* C7 witness: "parse" was validated on a payload without error and without
\* a "parse" field, and failed NotFound
C7_Witness ==
    /\ Validated /\ IsJson /\ last.action = "parse"
    /\ ~HasKey(LastDoc, "error") /\ ~HasKey(LastDoc, "parse")
    /\ last.outcome = "NotFound"

\* C8: for "wikidata", a parsed payload without a non-empty "error" fails
\* NotFound exactly when its "entities" mapping has the key "-1"; for any
\* other action the key "-1" never changes the outcome.
C8_EntityMissing ==
    (Validated /\ IsJson /\ ~Truthy(Get(LastDoc, "error")))
    => /\ last.action = "wikidata"
            => (last.outcome = "NotFound"
                  <=> (HasKey(LastDoc, "entities")
                         /\ "-1" \in DOMAIN Get(LastDoc, "entities").m))
       /\ (last.action # "wikidata" /\ HasKey(LastDoc, "entities"))
            => KindOn(SetMember(LastDoc, "entities",
                                DropMember(Get(LastDoc, "entities"), "-1")))
                  = last.outcome

\* C8 witness: "wikidata" was validated on a payload without error whose
\* entities have the key "-1", and failed NotFound
C8_Witness ==
    /\ Validated /\ IsJson /\ last.action = "wikidata"
    /\ ~HasKey(LastDoc, "error")
    /\ HasKey(LastDoc, "entities") /\ "-1" \in DOMAIN Get(LastDoc, "entities").m
    /\ last.outcome = "NotFound"

----------------------------------------------------------------------------
(* Claims about the accessors *)

\* C9 as stated: whatever string the query builder returned, the string
\* query(action) returns for a fetched action does not contain '&format=json'.
C9_Original ==
    \A a \in DOMAIN cache :
        "query" \in cache[a].keys => ~Contains(FORMAT_JSON, query(a).value)

\* the record made of what the transport was last given and returned for a
SentRec(a) == Stored(Placeholder, sent[a].query, sent[a].response, sent[a].info)

\* the fetch that populated the record of a validated successfully
FetchedValid(a) == calls[a] > 0 /\ load_response(SentRec(a), a).exc = "none"

\* C10: for every action whose populating fetch (for "imageinfo" the latest
\* one) validated successfully, response(action) returns the document that
\* the text the transport returned in that fetch parses to, also after
\* fetches of other actions.
C10_RoundTrip ==
    \A a \in Actions :
        FetchedValid(a) => response(a) = Value(json_loads(sent[a].response).value)

\* C10 witness: "imageinfo" was fetched twice, the second fetch validated,
\* and another action was fetched from the transport after it
C10_Witness ==
    /\ calls["imageinfo"] >= 2 /\ FetchedValid("imageinfo")
    /\ last.action # "imageinfo" /\ Validated
    /\ response("imageinfo").kind = "value"

----------------------------------------------------------------------------
(* Claims about the cache over a session *)

\* C11: for every action that reached the transport, info(action) returns
\* the info the transport produced in the action's latest fetch, whatever
\* validation made of it and whichever other actions were fetched later; a
\* "query" fetch of the listing payload validates and its info has status 200.
C11_InfoUnchanged ==
    /\ \A a \in Actions : calls[a] > 0 => info(a) = Value(sent[a].info)
    /\ (Validated /\ last.action = "query" /\ LastBody = JsonText(RestPage, FALSE))
          => /\ last.outcome = "ok"
             /\ info("query").value.status = 200

\* C11 witness: "query" fetched the listing with status 200, which validated,
\* and a fetch of another action reached the transport afterwards
C11_Witness ==
    /\ calls["query"] = 1 /\ FetchedValid("query")
    /\ sent["query"].response = JsonText(RestPage, FALSE)
    /\ info("query") = Value(OneInfo)
    /\ last.action # "query" /\ Validated
    /\ sent[last.action].info # OneInfo

\* C12: an action name in the cache stays in the cache, and the record of an
\* action other than "imageinfo" whose response is populated never changes.
C12_RecordImmutable ==
    [][\A a \in DOMAIN cache :
          /\ a \in DOMAIN cache'
          /\ (a # "imageinfo" /\ "response" \in cache[a].keys)
                => cache'[a] = cache[a]]_vars

\* C12 witness: an action other than "imageinfo" with a populated response
\* was called again
C12_Witness ==
    \E a \in Actions \ {"imageinfo"} :
        /\ nfetch[a] >= 2 /\ "response" \in cache[a].keys
        /\ last.action = a

\* C14 as stated: for every action name the accessors report as known,
\* info(action) and query(action) return a value and do not fail.
C14_Original ==
    \A a \in DOMAIN cache :
        /\ info(a).exc = "none" /\ info(a).kind = "value"
        /\ query(a).exc = "none" /\ query(a).kind = "value"

\* the record of a holds a response that the validator rejects with one of
\* the four kinds of failure
FailedRecord(a) ==
    /\ a \in DOMAIN cache /\ "response" \in cache[a].keys
    /\ load_response(cache[a], a).kind
          \in {"EmptyResponse", "MalformedPayload", "APIError", "NotFound"}

\* C19: once the fetch of an action other than "imageinfo" has failed
\* validation, every later call for it is a cache hit: it raises nothing and
\* leaves the failed record, the data and the transport count as they are.
C19_FailureReportedOnce ==
    [][\A a \in Actions \ {"imageinfo"} :
          (Called(a) /\ FailedRecord(a))
             => /\ last'.outcome = "cached" /\ last'.exc = "none"
                /\ cache' = cache /\ data' = data /\ calls' = calls
                /\ FailedRecord(a)']_vars

\* C19 witness: an action other than "imageinfo" whose fetch failed was
\* called again and came back as a cache hit
C19_Witness ==
    \E a \in Actions \ {"imageinfo"} :
        /\ FailedRecord(a) /\ nfetch[a] >= 2 /\ calls[a] = 1
        /\ last.action = a /\ last.outcome = "cached" /\ last.exc = "none"

----------------------------------------------------------------------------
(* Claims about the accessors and the skip flag in a short session *)

\* C15: called with no action, info, query and response return None when the
\* cache is empty and otherwise exactly the names in the cache, which are the
\* actions a fetch was attempted for, skipped ones included; no accessor call
\* changes the cache.
C15_NamesOfCache ==
    [][(nfetch' = nfetch)
          => /\ cache' = cache
             /\ ret'.action = "None"
                   => /\ ret'.result.exc = "none"
                      /\ (\A a \in Actions : nfetch[a] = 0)
                            => ret'.result.kind = "None"
                      /\ (\E a \in Actions : nfetch[a] > 0)
                            => /\ ret'.result.kind = "names"
                               /\ ret'.result.names
                                     = {a \in Actions : nfetch[a] > 0}]_vars

\* C15 witness: an accessor called with no action returned the names, a
\* skipped action among them
C15_Witness ==
    /\ ret.op = "response" /\ ret.action = "None"
    /\ ret.result.kind = "names"
    /\ ret.result.names = FewActions
    /\ \E a \in flags.skip : nfetch[a] > 0 /\ a \in ret.result.names

\* a call for a was short-circuited by the skip check and a has since been
\* taken out of the skip flag
RetryAfterSkip(a) ==
    /\ a \in DOMAIN cache /\ cache[a].keys = {}
    /\ a \notin flags.skip

\* C17 as stated: for every action, the next call after the action was
\* skipped and then taken out of skip invokes the transport and populates
\* the response.
C17_Original ==
    [][\A a \in Actions :
          (Called(a) /\ RetryAfterSkip(a))
             => /\ calls'[a] = calls[a] + 1
                /\ "response" \in cache'[a].keys]_vars

\* C17 amended: only for "imageinfo" does the next call after the action was
\* skipped and then taken out of skip invoke the transport and populate the
\* response; for every other action the placeholder of the skipped call makes
\* the next call a cache hit that fetches nothing.
C17_RetryOnlyImageinfo ==
    [][\A a \in Actions :
          (Called(a) /\ RetryAfterSkip(a))
             => IF a = "imageinfo"
                THEN /\ calls'[a] = calls[a] + 1
                     /\ "response" \in cache'[a].keys
                ELSE /\ last'.outcome = "cached"
                     /\ calls' = calls /\ cache' = cache]_vars

\* C17 witness: "imageinfo" was skipped, taken out of skip and fetched
C17_Witness ==
    /\ nfetch["imageinfo"] = 2 /\ calls["imageinfo"] = 1
    /\ flags.skip = {}
    /\ "response" \in cache["imageinfo"].keys
    /\ last.action = "imageinfo"

----------------------------------------------------------------------------
(* Claims about the formatter *)

\* C20 as stated: a line longer than maxwidth is written as its first
\* maxwidth - (rightPadding + 2) characters and an ellipsis, and a line of at
\* most maxwidth characters, one of exactly maxwidth included, is written
\* unchanged.
C20_Original ==
    ret.op = "prettyprint"
    => \A i \in 1..Len(ret.result.given) :
          LET line == ret.result.given[i]
              out  == ret.result.written[i]
          IN  IF Len(line) > MAXWIDTH
              THEN out = SubSeq(line, 1, MAXWIDTH - (RPAD + 2)) \o Ellipsis
              ELSE out = line

----------------------------------------------------------------------------
(* Claims about the order of the statements of _get *)

\* C13: in a call that reaches the transport, _set_data runs when the response
\* and the info are stored; if it fails, the caller gets the failure, nothing
\* is extracted and the formatter is not called; the formatter is called only
\* when show was asked for and _set_data did not fail, and never in a call that
\* ends as a cache hit, as skipped or in the transport.
C13_ShowOnlyAfterValidation ==
    /\ [](pc = "extract" => HoldsSent(cache, sent, cur.action))
    /\ [](last.outcome \in {"cached", "skipped", "TransportError"}
             => ~last.show /\ ~last.printed)
    /\ [][(pc = "extract" /\ pc' = "idle")
             => /\ last'.action = cur.action
                /\ last'.exc = load_response(cache[cur.action], cur.action).exc
                /\ last'.exc # "none" => (~last'.show /\ ~last'.printed /\ data' = data)
                /\ last'.show => (cur.show /\ last'.exc = "none")]_vars
    /\ [][last'.show /\ last' # last => pc = "extract"]_vars

\* C13 witness: a call that asked for the formatter has stored the response
\* and the info, and its validation is about to fail.
C13_Witness ==
    /\ pc = "extract"
    /\ cur.show
    /\ HoldsSent(cache, sent, cur.action)
    /\ load_response(cache[cur.action], cur.action).exc # "none"

\* C16 as stated: in every state in which the transport has been invoked for
\* an action, the record of the action holds the query string sent in the most
\* recent transport call for it.
C16_Original ==
    \A a \in Actions :
        calls[a] >= 1
            => /\ a \in DOMAIN cache
               /\ "query" \in cache[a].keys
               /\ cache[a].query = sent[a].query

\* C16: the query string is in the record when the transport is invoked, and
\* in every state in which the transport has been invoked for an action the
\* record holds the query string of the most recent transport call, or, while
\* a repeated call for "imageinfo" is between writing its query string and
\* invoking the transport, the query string that is about to be sent.
C16_QueryWrittenBeforeTransport ==
    /\ pc \in {"request", "transport", "extract"}
          => /\ "query" \in cache[cur.action].keys
             /\ cache[cur.action].query = cur.qstr
    /\ \A a \in Actions :
          calls[a] >= 1
              => /\ a \in DOMAIN cache
                 /\ "query" \in cache[a].keys
                 /\ \/ cache[a].query = sent[a].query
                    \/ /\ a = "imageinfo"
                       /\ pc = "request"
                       /\ cur.action = a

\* C16 witness: the transport call of the first fetch of an action failed, and
\* the record holds the query string that was sent and no response.
C16_Witness ==
    /\ pc = "idle"
    /\ last.outcome = "TransportError"
    /\ calls[last.action] = 1
    /\ cache[last.action].keys = {"query"}
    /\ cache[last.action].query = sent[last.action].query

\* C18: the placeholder of the action is in the cache at the skip check, the
\* query build, the transport call and the extraction of a running _get, so a
\* call of _get for the same action (other than "imageinfo") made from inside
\* one of these steps is a cache hit: it leaves the cache alone and does not
\* invoke the transport.
C18_NestedIsCacheHit ==
    /\ [](pc # "idle" => cur.action \in DOMAIN cache)
    /\ [][\A a \in Actions \ {"imageinfo"} :
             (pc # "idle" /\ cur.action = a /\ Called(a))
                 => /\ last'.action = a
                    /\ last'.outcome = "cached"
                    /\ calls' = calls
                    /\ cache' = cache
                    /\ data' = data]_vars

\* C18 witness: while the transport call of a fetch of "query" is running, a
\* nested fetch of "query" came back as a cache hit.
C18_Witness ==
    /\ pc = "transport"
    /\ cur.action = "query"
    /\ last.action = "query"
    /\ last.outcome = "cached"
    /\ calls["query"] = 1
    /\ nfetch["query"] = 2

====
